---- MODULE Spec2Model ----
(***************************************************************************)
(* Model of meta_refine_pkg/core/analyzer.py: the chunk planner, the       *)
(* finding parser, the result aggregator, the fingerprint cache and the    *)
(* per-file pipeline analyze_file.                                         *)
(*                                                                         *)
(* Source text.  A source text is the sequence of its lines, as            *)
(* code.split('\n') yields them, so it is never the empty sequence: the    *)
(* empty file is the one-line text whose line is the empty string.  A line *)
(* is a record [no, kind]: no is its 1-based position in the file and kind *)
(* stands for its text:                                                    *)
(*     "def"    def f():        a top-level declaration header             *)
(*     "body"       pass        an indented statement                      *)
(*     "stmt"   x = 1           a top-level statement                      *)
(*     "blank"                  the empty string                           *)
(*     "bad"    x = (           a line Python cannot parse                 *)
(*     "uni"    s = "e'"        a statement holding one two-byte character *)
(*     "method"     def g():    a declaration header, indented once        *)
(*     "inner"          pass    a statement indented twice                 *)
(***************************************************************************)
EXTENDS Integers, Sequences, FiniteSets, TLC

VARIABLES
    config,        \* self.config: the AnalysisConfig of the analyzer
    cache,         \* self.cache: cache key -> reference to an AnalysisResult
    heap,          \* the AnalysisResult objects, by reference
    calls,         \* the analyze_file calls made so far, the running ones included
    oracle_calls,  \* how often model.analyze_code has been invoked
    plan,          \* chunk planner alone: its input and its output
    parsed,        \* finding parser alone: its input and its output
    agg,           \* result aggregator alone: its input and its output
    project,       \* the analyze_project call: its arguments, tasks and results
    settings       \* config.py: the environment and the Settings objects made

vars == <<config, cache, heap, calls, oracle_calls, plan, parsed, agg, project, settings>>

pipeline_vars == <<cache, heap, calls, oracle_calls>>

----------------------------------------------------------------------------
(* Bounds of the model.                                                     *)

MaxLines == 13

MaxChunkSize == 12

MaxOverlap == 2

MaxCap == 1

MaxCalls == 2

MaxOffset == 3

MaxIssues == 3

MaxSettingsCalls == 3

----------------------------------------------------------------------------
(* Python helpers.                                                          *)

Max(a, b) == IF a >= b THEN a ELSE b

Min(a, b) == IF a <= b THEN a ELSE b

SetMax(S) == CHOOSE x \in S : \A y \in S : y <= x

SetMin(S) == CHOOSE x \in S : \A y \in S : x <= y

\* s[a:b] of Python for 0 <= a, 0 <= b: the elements at 0-based indices a..b-1.
Slice(s, a, b) == SubSeq(s, a + 1, Min(b, Len(s)))

\* '\n'.join(lines) seen as the sequence of the lines of the joined text:
\* joining no line at all gives the empty string, the text of one empty line.
Join(lines) == IF lines = <<>> THEN <<[no |-> 0, kind |-> "blank"]>> ELSE lines

Kinds == {"def", "body", "stmt", "blank", "bad", "uni", "method", "inner"}

\* The text with the given line kinds.
MkCode(kinds) == [i \in 1..Len(kinds) |-> [no |-> i, kind |-> kinds[i]]]

\* len(text.encode('utf-8')) and len(text) of one line.
LineBytes(kind) ==
    CASE kind = "def" -> 8
      [] kind = "body" -> 8
      [] kind = "stmt" -> 5
      [] kind = "blank" -> 0
      [] kind = "bad" -> 5
      [] kind = "uni" -> 8
      [] kind = "method" -> 12
      [] kind = "inner" -> 12

LineChars(kind) == IF kind = "uni" THEN 7 ELSE LineBytes(kind)

RECURSIVE SumBytes(_, _)
SumBytes(code, i) ==
    IF i = 0 THEN 0 ELSE LineBytes(code[i].kind) + SumBytes(code, i - 1)

RECURSIVE SumChars(_, _)
SumChars(code, i) ==
    IF i = 0 THEN 0 ELSE LineChars(code[i].kind) + SumChars(code, i - 1)

\* len(code): the characters of the lines and the newlines between them.
CharLen(code) == SumChars(code, Len(code)) + Len(code) - 1

\* len(code.encode('utf-8')).
EncodedSize(code) == SumBytes(code, Len(code)) + Len(code) - 1

----------------------------------------------------------------------------
(* The chunk planner: _chunk_code, _chunk_python_ast, _chunk_by_lines.      *)

MinChunkLines == 10

ContextLines == 5

\* line.strip().startswith(('class ', 'def ', 'async def '))
StartsDeclaration(line) == line.kind \in {"def", "method"}

IsLogicalBreak(line, all_lines, index) ==
    \/ StartsDeclaration(line)
    \/ /\ line.kind = "blank"
       /\ index + 1 < Len(all_lines)
       /\ StartsDeclaration(all_lines[index + 2])

\* The loop of _chunk_by_lines from the 0-based index i on; st holds the
\* locals chunks, current_chunk and chunk_start_line.
RECURSIVE ChunkLoop(_, _, _)
ChunkLoop(lines, i, st) ==
    IF i >= Len(lines) THEN st
    ELSE
        LET line == lines[i + 1]
            current_chunk == Append(st.current_chunk, line)
            current_line == i + 1
            should_break ==
                \/ Len(current_chunk) >= config.chunk_size
                \/ IsLogicalBreak(line, lines, i)
        IN  IF should_break /\ Len(current_chunk) > MinChunkLines
            THEN
                LET closed == Append(st.chunks,
                                  [content |-> Join(current_chunk),
                                   start |-> st.chunk_start_line])
                IN  IF config.chunk_overlap > 0
                    THEN
                        LET overlap_start ==
                                Max(0, Len(current_chunk) - config.chunk_overlap)
                        IN  ChunkLoop(lines, i + 1,
                                [chunks |-> closed,
                                 current_chunk |->
                                     Slice(current_chunk, overlap_start,
                                           Len(current_chunk)),
                                 chunk_start_line |->
                                     current_line - config.chunk_overlap + 1])
                    ELSE
                        ChunkLoop(lines, i + 1,
                                [chunks |-> closed,
                                 current_chunk |-> <<>>,
                                 chunk_start_line |-> current_line + 1])
            ELSE
                ChunkLoop(lines, i + 1,
                        [chunks |-> st.chunks,
                         current_chunk |-> current_chunk,
                         chunk_start_line |-> st.chunk_start_line])

ChunkByLines(lines) ==
    LET st == ChunkLoop(lines, 0,
                  [chunks |-> <<>>, current_chunk |-> <<>>, chunk_start_line |-> 1])
        chunks ==
            IF st.current_chunk # <<>>
            THEN Append(st.chunks,
                     [content |-> Join(st.current_chunk), start |-> st.chunk_start_line])
            ELSE st.chunks
    IN  IF chunks # <<>> THEN chunks ELSE <<[content |-> Join(lines), start |-> 1]>>

\* ast.parse on the line kinds.  A "def" line is `def f():` at the margin,
\* "body" a statement indented once, "method" a `def g():` indented once,
\* "inner" a statement indented twice; "stmt" and "uni" are statements at
\* the margin.  The header a line belongs to is the nearest line above it
\* that is neither indented nor empty.
Depth(kind) ==
    CASE kind \in {"body", "method"} -> 1
      [] kind = "inner" -> 2
      [] OTHER -> 0

Header(code, i) ==
    LET above == {j \in 1..(i - 1) : code[j].kind # "blank" /\ Depth(code[j].kind) = 0}
    IN  IF above = {} THEN 0 ELSE SetMax(above)

\* The nearest line above line i, or below it, that is not empty; 0 if none.
SolidAbove(code, i) ==
    LET above == {j \in 1..(i - 1) : code[j].kind # "blank"}
    IN  IF above = {} THEN 0 ELSE SetMax(above)

SolidBelow(code, i) ==
    LET below == {j \in (i + 1)..Len(code) : code[j].kind # "blank"}
    IN  IF below = {} THEN 0 ELSE SetMin(below)

OpensBlock(kind) == kind \in {"def", "method"}

\* The lines of the block of the declaration at the margin in line d.
BodyOf(code, d) ==
    {j \in 1..Len(code) : Depth(code[j].kind) > 0 /\ Header(code, j) = d}

\* The lines of the block of the nested declaration in line m.
InnerOf(code, m) ==
    {j \in (m + 1)..Len(code) :
        /\ code[j].kind = "inner"
        /\ \A k \in (m + 1)..j : code[k].kind \in {"inner", "blank"}}

\* ast.parse raises SyntaxError: a line that does not parse; a declaration
\* without a block; a line at the margin, or a line indented once, right
\* under a line that opens a block it is not deeper than; a line indented
\* once whose header is no declaration or whose header's block is indented
\* twice; a line indented twice under a line that is neither a declaration
\* nor indented twice.
SyntaxError(code) ==
    \/ \E i \in 1..Len(code) : code[i].kind = "bad"
    \/ \E i \in 1..Len(code) :
          /\ OpensBlock(code[i].kind)
          /\ \/ SolidBelow(code, i) = 0
             \/ Depth(code[SolidBelow(code, i)].kind) <= Depth(code[i].kind)
    \/ \E i \in 1..Len(code) :
          /\ Depth(code[i].kind) = 1
          /\ \/ Header(code, i) = 0
             \/ code[Header(code, i)].kind # "def"
             \/ code[SolidBelow(code, Header(code, i))].kind = "inner"
    \/ \E i \in 1..Len(code) :
          /\ code[i].kind = "inner"
          /\ \/ SolidAbove(code, i) = 0
             \/ ~(OpensBlock(code[SolidAbove(code, i)].kind)
                     \/ code[SolidAbove(code, i)].kind = "inner")

\* The ClassDef / FunctionDef / AsyncFunctionDef nodes among the statements
\* of the module, each with lineno and end_lineno.
RECURSIVE DeclNodes(_, _)
DeclNodes(code, i) ==
    IF i > Len(code) THEN <<>>
    ELSE IF code[i].kind = "def"
         THEN <<[lineno |-> i, end_lineno |-> SetMax(BodyOf(code, i))]>>
                  \o DeclNodes(code, i + 1)
         ELSE DeclNodes(code, i + 1)

\* The same nodes one level down: the declarations nested in a declaration.
RECURSIVE NestedNodes(_, _)
NestedNodes(code, i) ==
    IF i > Len(code) THEN <<>>
    ELSE IF code[i].kind = "method"
         THEN <<[lineno |-> i, end_lineno |-> SetMax(InnerOf(code, i))]>>
                  \o NestedNodes(code, i + 1)
         ELSE NestedNodes(code, i + 1)

\* The nodes ast.walk meets, in its order: breadth first, so the
\* declarations at the margin come before the nested ones.
WalkNodes(code) == DeclNodes(code, 1) \o NestedNodes(code, 1)

\* len(chunk_content.strip()) > 0
NotOnlyWhitespace(chunk_lines) ==
    \E k \in 1..Len(chunk_lines) : chunk_lines[k].kind # "blank"

RECURSIVE NodeChunks(_, _, _)
NodeChunks(lines, nodes, k) ==
    IF k > Len(nodes) THEN <<>>
    ELSE
        LET start_line == nodes[k].lineno
            end_line == nodes[k].end_lineno
            context_before == Max(1, start_line - ContextLines)
            context_after == Min(Len(lines), end_line + ContextLines)
            chunk_lines == Slice(lines, context_before - 1, context_after)
        IN  (IF NotOnlyWhitespace(chunk_lines)
             THEN <<[content |-> Join(chunk_lines), start |-> context_before]>>
             ELSE <<>>)
            \o NodeChunks(lines, nodes, k + 1)

\* A chunk list, or the exception the planner raises.  The handler of
\* SyntaxError reads the local `lines`, which is assigned only after
\* ast.parse has returned: it raises UnboundLocalError.
Raised(e) == [raised |-> TRUE, error |-> e, chunks |-> <<>>]

Returned(chunks) == [raised |-> FALSE, error |-> "", chunks |-> chunks]

ChunkPythonAst(code) ==
    IF SyntaxError(code) THEN Raised("UnboundLocalError")
    ELSE
        LET chunks == NodeChunks(code, WalkNodes(code), 1)
        IN  IF chunks = <<>> THEN Returned(ChunkByLines(code)) ELSE Returned(chunks)

\* Mutant: a file of exactly chunk_size lines is split.
ChunkCode_Less(code, language) ==
    IF Len(code) < config.chunk_size THEN Returned(<<[content |-> code, start |-> 1]>>)
    ELSE IF language = "python" THEN ChunkPythonAst(code)
    ELSE Returned(ChunkByLines(code))

ChunkCode(code, language) ==
    IF Len(code) <= config.chunk_size THEN Returned(<<[content |-> code, start |-> 1]>>)
    ELSE IF language = "python" THEN ChunkPythonAst(code)
    ELSE Returned(ChunkByLines(code))

----------------------------------------------------------------------------
(* Oracle responses.  A response is a sequence of tokens [t, v, n]: v is    *)
(* the token's text, n its value when it is a number.                       *)
(*     "mark"   a field marker SEVERITY: LINE: ISSUE: IMPACT: SOLUTION:     *)
(*     "word"   one alphabetic word                                         *)
(*     "num"    a run of digits                                             *)
(*     "text"   a phrase that holds no marker                               *)
(*     "ref"    the phrase `line n`                                         *)
(*     "clean"  a phrase holding `no issues found` in some case             *)
(*     "nl"     a newline                                                   *)
(* Tokens are separated by blanks in the text unless an "nl" says           *)
(* otherwise.                                                               *)

Mark(v) == [t |-> "mark", v |-> v, n |-> 0]

Word(v) == [t |-> "word", v |-> v, n |-> 0]

Num(n) == [t |-> "num", v |-> "digits", n |-> n]

Text(v) == [t |-> "text", v |-> v, n |-> 0]

Ref(n) == [t |-> "ref", v |-> "line", n |-> n]

Clean(v) == [t |-> "clean", v |-> v, n |-> 0]

NL == [t |-> "nl", v |-> "\n", n |-> 0]

\* What a finding keeps of a token: its text, and its digits.
Shown(tok) == <<tok.v, tok.n>>

\* str.upper() on the words and the first words of the phrases in use.
Upper(w) ==
    CASE w = "high" -> "HIGH"
      [] w = "low" -> "LOW"
      [] w = "debug" -> "DEBUG"
      [] w = "verbose" -> "VERBOSE"
      [] w = "null deref" -> "NULL"
      [] w = "crash" -> "CRASH"
      [] w = "check null" -> "CHECK"
      [] w = "sql injection" -> "SQL"
      [] w = "slow loop" -> "SLOW"
      [] w = "unused name" -> "UNUSED"
      [] w = "apply the fix" -> "APPLY"
      [] w = "no issues found" -> "NO"
      [] w = "No significant issues found." -> "NO"
      [] w = "line" -> "LINE"
      [] w = "SEVERITY:" -> "SEVERITY"
      [] w = "LINE:" -> "LINE"
      [] w = "ISSUE:" -> "ISSUE"
      [] w = "IMPACT:" -> "IMPACT"
      [] w = "SOLUTION:" -> "SOLUTION"
      [] OTHER -> w

\* The match of [A-Z]+ under IGNORECASE at the start of a token, upper-cased;
\* "" when the token does not start with a letter.
LeadingLetters(tok) == IF tok.t \in {"num", "nl"} THEN "" ELSE Upper(tok.v)

\* text.strip(): the newlines at both ends go.
RECURSIVE LStrip(_)
LStrip(toks) ==
    IF toks # <<>> /\ Head(toks).t = "nl" THEN LStrip(Tail(toks)) ELSE toks

RECURSIVE RStrip(_)
RStrip(toks) ==
    IF toks # <<>> /\ toks[Len(toks)].t = "nl"
    THEN RStrip(SubSeq(toks, 1, Len(toks) - 1))
    ELSE toks

Strip(toks) == RStrip(LStrip(toks))

\* The text of a token sequence, as a finding's field holds it.
TextOf(toks) == [k \in 1..Len(toks) |-> Shown(toks[k])]

\* The positions of block at which the marker m stands.
MarkersAt(block, m) ==
    {k \in 1..Len(block) : block[k].t = "mark" /\ block[k].v = m}

\* The first position after k that holds no newline, or 0.
NextSolid(block, k) ==
    LET S == {j \in (k + 1)..Len(block) : block[j].t # "nl"}
    IN  IF S = {} THEN 0 ELSE SetMin(S)

----------------------------------------------------------------------------
(* The finding parser: _parse_model_response, _parse_issue_block,           *)
(* _categorize_issue, _parse_legacy_response, _extract_line_number.         *)

Severities == {"CRITICAL", "HIGH", "MEDIUM", "LOW", "INFO"}

LegacySeverities == {"CRITICAL", "HIGH", "MEDIUM", "LOW"}

\* The categories whose keywords occur in a token's text.
KeywordsIn(tok) ==
    CASE tok.v = "sql injection" -> {"security"}
      [] tok.v = "slow loop" -> {"performance"}
      [] tok.v \in {"null deref", "crash", "check null"} -> {"bug"}
      [] OTHER -> {}

CategorizeIssue(description) ==
    LET found == UNION {KeywordsIn(description[k]) : k \in 1..Len(description)}
    IN  CASE "security" \in found -> "security"
          [] "performance" \in found -> "performance"
          [] "bug" \in found -> "bug"
          [] "style" \in found -> "style"
          [] "documentation" \in found -> "documentation"
          [] OTHER -> "general"

\* Mutant: the capture is greedy and runs to the end of the block.
FieldText_Greedy(block, m, stops) ==
    LET at == {k \in MarkersAt(block, m) : k < Len(block)}
    IN  IF at = {} THEN [match |-> FALSE, toks |-> <<>>]
        ELSE
            LET first == NextSolid(block, SetMin(at))
            IN  IF first = 0 THEN [match |-> TRUE, toks |-> <<>>]
                ELSE [match |-> TRUE, toks |-> Strip(SubSeq(block, first, Len(block)))]

\* re.search(marker + r'\s*(.+?)(?=stop1|stop2|$)', block, DOTALL): the
\* tokens captured after the first marker m that has any text behind it, up
\* to the next marker of stops, and whether there was a match at all.
FieldText(block, m, stops) ==
    LET at == {k \in MarkersAt(block, m) : k < Len(block)}
    IN  IF at = {} THEN [match |-> FALSE, toks |-> <<>>]
        ELSE
            LET k == SetMin(at)
                first == NextSolid(block, k)
                ends == {j \in (first + 1)..Len(block) :
                            block[j].t = "mark" /\ block[j].v \in stops}
                last == IF ends = {} THEN Len(block) ELSE SetMin(ends) - 1
            IN  IF first = 0 THEN [match |-> TRUE, toks |-> <<>>]
                ELSE [match |-> TRUE, toks |-> Strip(SubSeq(block, first, last))]

NoIssue == [severity |-> "", line |-> 0, type |-> "", description |-> <<>>,
            suggestion |-> <<>>, impact |-> <<>>]

ParseIssueBlock(block, line_offset) ==
    LET sev_at == {k \in MarkersAt(block, "SEVERITY:") :
                      /\ NextSolid(block, k) # 0
                      /\ LeadingLetters(block[NextSolid(block, k)]) # ""}
        line_at == {k \in MarkersAt(block, "LINE:") :
                      /\ NextSolid(block, k) # 0
                      /\ block[NextSolid(block, k)].t = "num"}
        issue_match == FieldText(block, "ISSUE:", {"IMPACT:", "SOLUTION:"})
        impact_match == FieldText(block, "IMPACT:", {"SOLUTION:"})
        solution_match == FieldText(block, "SOLUTION:", {})
        description ==
            IF issue_match.match THEN issue_match.toks ELSE <<Text("Unknown issue")>>
    IN  IF sev_at = {} THEN [ok |-> FALSE, issue |-> NoIssue]
        ELSE [ok |-> TRUE,
              issue |->
                [severity |-> LeadingLetters(block[NextSolid(block, SetMin(sev_at))]),
                 line |-> IF line_at # {}
                          THEN block[NextSolid(block, SetMin(line_at))].n + line_offset
                          ELSE 1 + line_offset,
                 type |-> CategorizeIssue(description),
                 description |-> TextOf(description),
                 suggestion |-> IF solution_match.match
                                THEN TextOf(solution_match.toks)
                                ELSE TextOf(<<Text("No solution provided")>>),
                 impact |-> IF impact_match.match
                            THEN TextOf(impact_match.toks)
                            ELSE TextOf(<<Text("Unknown impact")>>)]]

\* re.split(r'(?=SEVERITY:)', response): cur is the piece being read.
RECURSIVE SplitBlocks(_, _)
SplitBlocks(toks, cur) ==
    IF toks = <<>> THEN <<cur>>
    ELSE IF Head(toks).t = "mark" /\ Head(toks).v = "SEVERITY:"
         THEN <<cur>> \o SplitBlocks(Tail(toks), <<Head(toks)>>)
         ELSE SplitBlocks(Tail(toks), Append(cur, Head(toks)))

\* response.split('\n')
RECURSIVE SplitLines(_, _)
SplitLines(toks, cur) ==
    IF toks = <<>> THEN <<cur>>
    ELSE IF Head(toks).t = "nl"
         THEN <<cur>> \o SplitLines(Tail(toks), <<>>)
         ELSE SplitLines(Tail(toks), Append(cur, Head(toks)))

\* re.search(r'\b(CRITICAL|HIGH|MEDIUM|LOW)\b', line, IGNORECASE)
SeverityWord(tok) ==
    IF tok.t = "word" /\ Upper(tok.v) \in LegacySeverities THEN Upper(tok.v) ELSE ""

SeverityMatch(line) ==
    LET at == {k \in 1..Len(line) : SeverityWord(line[k]) # ""}
    IN  IF at = {} THEN "" ELSE SeverityWord(line[SetMin(at)])

\* re.search(r'line\s+(\d+)', text, IGNORECASE): the number, or -1.
LineMatch(line) ==
    LET at == {k \in 1..Len(line) : line[k].t = "ref"}
    IN  IF at = {} THEN -1 ELSE line[SetMin(at)].n

ExtractLineNumber(text) == IF LineMatch(text) # -1 THEN LineMatch(text) ELSE 1

\* 'suggestion' in line.lower() or 'fix' in line.lower()
MentionsFix(line) == \E k \in 1..Len(line) : line[k].v = "apply the fix"

\* The loop of _parse_legacy_response over lines[k..]; st holds the locals
\* issues and current_issue (has tells whether current_issue is non-empty).
RECURSIVE LegacyLoop(_, _, _, _)
LegacyLoop(lines, k, line_offset, st) ==
    IF k > Len(lines) THEN st
    ELSE
        LET line == lines[k]
            severity_match == SeverityMatch(line)
            s1 == IF severity_match # ""
                  THEN [issues |-> IF st.has THEN Append(st.issues, st.current_issue)
                                   ELSE st.issues,
                        has |-> TRUE,
                        current_issue |->
                            [severity |-> severity_match,
                             description |-> TextOf(line),
                             line |-> ExtractLineNumber(line) + line_offset,
                             type |-> "general",
                             suggestion |-> <<>>,
                             impact |-> <<>>]]
                  ELSE st
            s2 == IF LineMatch(line) # -1 /\ s1.has
                  THEN [s1 EXCEPT !.current_issue.line = LineMatch(line) + line_offset]
                  ELSE s1
            s3 == IF s2.has /\ line # <<>> /\ severity_match = ""
                  THEN IF MentionsFix(line)
                       THEN [s2 EXCEPT !.current_issue.suggestion = @ \o TextOf(line)]
                       ELSE [s2 EXCEPT !.current_issue.description = @ \o TextOf(line)]
                  ELSE s2
        IN  LegacyLoop(lines, k + 1, line_offset, s3)

ParseLegacyResponse(response, line_offset) ==
    LET st == LegacyLoop(SplitLines(response, <<>>), 1, line_offset,
                  [issues |-> <<>>, has |-> FALSE, current_issue |-> NoIssue])
    IN  IF st.has THEN Append(st.issues, st.current_issue) ELSE st.issues

RECURSIVE ParseBlocks(_, _, _)
ParseBlocks(blocks, k, line_offset) ==
    IF k > Len(blocks) THEN <<>>
    ELSE
        LET issue == ParseIssueBlock(blocks[k], line_offset)
        IN  (IF Strip(blocks[k]) # <<>> /\ issue.ok THEN <<issue.issue>> ELSE <<>>)
            \o ParseBlocks(blocks, k + 1, line_offset)

\* Mutant: only the response that is the phrase and nothing else counts.
SaysNoIssues_Alone(response) == Len(response) = 1 /\ response[1].t = "clean"

\* "no significant issues found" in response.lower() or
\* "no issues found" in response.lower()
SaysNoIssues(response) == \E k \in 1..Len(response) : response[k].t = "clean"

ParseModelResponse(response, line_offset) ==
    IF SaysNoIssues(response) THEN <<>>
    ELSE
        LET issues == ParseBlocks(SplitBlocks(response, <<>>), 1, line_offset)
        IN  IF issues = <<>>
            THEN ParseLegacyResponse(response, line_offset)
            ELSE issues

----------------------------------------------------------------------------
(* The result aggregator: _deduplicate_issues, _sort_issues_by_severity and *)
(* the cap of analyze_file.                                                 *)

\* Mutant: the description is left out of the key.
IssueKey_NoDescription(issue) == <<issue.line, issue.type>>

IssueKey(issue) == <<issue.line, issue.type, issue.description>>

\* The loop of _deduplicate_issues over issues[k..] with the locals seen and
\* unique_issues.
RECURSIVE DedupLoop(_, _, _, _)
DedupLoop(issues, k, seen, unique_issues) ==
    IF k > Len(issues) THEN unique_issues
    ELSE IF IssueKey(issues[k]) \notin seen
         THEN DedupLoop(issues, k + 1, seen \cup {IssueKey(issues[k])},
                        Append(unique_issues, issues[k]))
         ELSE DedupLoop(issues, k + 1, seen, unique_issues)

DeduplicateIssues(issues) == DedupLoop(issues, 1, {}, <<>>)

\* severity_order.get(severity, 4)
SeverityOrder(severity) ==
    CASE severity = "CRITICAL" -> 0
      [] severity = "HIGH" -> 1
      [] severity = "MEDIUM" -> 2
      [] severity = "LOW" -> 3
      [] severity = "INFO" -> 4
      [] OTHER -> 4

\* Mutant: equal keys count as out of order, as in an unstable sort.
KeyLeq_Strict(x, y) ==
    \/ SeverityOrder(x.severity) < SeverityOrder(y.severity)
    \/ /\ SeverityOrder(x.severity) = SeverityOrder(y.severity)
       /\ x.line < y.line

\* The sort key (rank, line) of x is at most that of y.
KeyLeq(x, y) ==
    \/ SeverityOrder(x.severity) < SeverityOrder(y.severity)
    \/ /\ SeverityOrder(x.severity) = SeverityOrder(y.severity)
       /\ x.line <= y.line

\* list.sort is stable: x goes behind every element whose key is at most its own.
RECURSIVE InsertSorted(_, _)
InsertSorted(sorted, x) ==
    IF sorted = <<>> THEN <<x>>
    ELSE IF KeyLeq(sorted[Len(sorted)], x) THEN Append(sorted, x)
         ELSE Append(InsertSorted(SubSeq(sorted, 1, Len(sorted) - 1), x),
                     sorted[Len(sorted)])

RECURSIVE SortLoop(_, _, _)
SortLoop(issues, k, sorted) ==
    IF k > Len(issues) THEN sorted
    ELSE SortLoop(issues, k + 1, InsertSorted(sorted, issues[k]))

\* Mutant: the findings stay in the order of their chunks.
SortIssuesBySeverity_Unsorted(issues) == issues

SortIssuesBySeverity(issues) == SortLoop(issues, 1, <<>>)

\* Mutant: the slice keeps one finding too many.
LimitIssues_OneMore(issues, cap) ==
    IF Len(issues) > cap THEN SubSeq(issues, 1, cap + 1) ELSE issues

\* if len(issues) > cap: issues = issues[:cap]; a negative cap counts from the end.
LimitIssues(issues, cap) ==
    IF Len(issues) > cap
    THEN IF cap >= 0 THEN SubSeq(issues, 1, cap)
         ELSE SubSeq(issues, 1, Max(0, Len(issues) + cap))
    ELSE issues

----------------------------------------------------------------------------
(* The per-file pipeline: analyze_file, _analyze_chunk, _detect_language,   *)
(* _generate_cache_key.  A file path is <<stem, suffix>>.                   *)

\* extension_map.get(file_path.suffix.lower(), 'unknown')
DetectLanguage(file_path) ==
    LET suffix == file_path[2]
    IN  CASE suffix = ".py" -> "python"
          [] suffix \in {".js", ".jsx"} -> "javascript"
          [] suffix \in {".ts", ".tsx"} -> "typescript"
          [] suffix = ".java" -> "java"
          [] suffix \in {".cpp", ".cc", ".cxx", ".hpp"} -> "cpp"
          [] suffix \in {".c", ".h"} -> "c"
          [] suffix = ".go" -> "go"
          [] suffix = ".rs" -> "rust"
          [] suffix = ".php" -> "php"
          [] suffix = ".rb" -> "ruby"
          [] suffix = ".kt" -> "kotlin"
          [] suffix = ".swift" -> "swift"
          [] suffix = ".cs" -> "csharp"
          [] suffix = ".sql" -> "sql"
          [] suffix \in {".sh", ".bash", ".zsh"} -> "bash"
          [] OTHER -> "unknown"

\* sha256 over code, language and the sorted option items: equal exactly when
\* the three are equal.
GenerateCacheKey(code, language, analysis_options) ==
    <<code, language, analysis_options>>

\* Mutant: the cache is looked up whatever the caller asked for.
CacheHit_IgnoresFlag(use_cache, cache_key) == cache_key \in DOMAIN cache

\* `cache and cache_key in self.cache`
CacheHit(use_cache, cache_key) == use_cache /\ cache_key \in DOMAIN cache

\* Mutant: the result is never stored.
CacheStore_Never(use_cache, cache_key, result) == cache

\* `if cache: self.cache[cache_key] = result`
CacheStore(use_cache, cache_key, result) ==
    IF use_cache
    THEN [x \in DOMAIN cache \cup {cache_key} |->
             IF x = cache_key THEN result ELSE cache[x]]
    ELSE cache

\* Mutant: only a language that was not recognised is turned away.
Supported_Known(language) == language # "unknown"

\* `language not in self.config.supported_languages`, negated
Supported(language) == language \in config.supported_languages

\* Mutant: the size is counted in characters.
TooLarge_Chars(code) == CharLen(code) > config.max_file_size

\* `len(code.encode('utf-8')) > self.config.max_file_size`
TooLarge(code) == EncodedSize(code) > config.max_file_size

\* What open(file_path).read() yields for a file that cannot be read.
ReadFailure == <<>>

\* The model client raised instead of returning a text.
OracleFailure == <<[t |-> "raise", v |-> "", n |-> 0]>>

\* The model client caught the failure itself and returned
\* f"Error during analysis: {str(e)}"; message is str(e).
FailureText(message) == <<Text("Error during analysis:")>> \o message

\* AnalysisResult(file_path, language) with add_issue calls applied.
NewResult(file_path, language, issues, analysis_time) ==
    [file_path |-> file_path, language |-> language, issues |-> issues,
     analysis_time |-> analysis_time]

\* result.add_issue("size", "HIGH", 1, ...)
SizeIssue ==
    [type |-> "size", severity |-> "HIGH", line |-> 1,
     description |-> <<<<"File exceeds maximum size limit", config.max_file_size>>>>,
     suggestion |-> <<<<"Consider splitting into smaller modules", 0>>>>,
     impact |-> <<>>]

\* Mutant: the failure is reported as a CRITICAL finding.
ErrorIssue_Critical(e) ==
    [type |-> "error", severity |-> "CRITICAL", line |-> 1,
     description |-> <<<<"Analysis failed", 0>>, <<e, 0>>>>,
     suggestion |-> <<<<"Check file syntax and accessibility", 0>>>>,
     impact |-> <<>>]

\* result.add_issue("error", "HIGH", 1, f"Analysis failed: {e}", ...)
ErrorIssue(e) ==
    [type |-> "error", severity |-> "HIGH", line |-> 1,
     description |-> <<<<"Analysis failed", 0>>, <<e, 0>>>>,
     suggestion |-> <<<<"Check file syntax and accessibility", 0>>>>,
     impact |-> <<>>]

\* The record of one analyze_file call.  Four fields only observe it:
\* answered is the chunk answered last, with the model's text and the
\* findings parsed from it, and answers lists these for all chunks answered;
\* sorted is result.issues right before the cap is applied; returned is
\* what the caller held in its hands when the call returned.
NewCall(file_path, code, language_arg, language, options, use_cache) ==
    [file_path |-> file_path, code |-> code, language_arg |-> language_arg,
     language |-> language, options |-> options, use_cache |-> use_cache,
     pc |-> "start", via |-> "", chunks |-> <<>>, index |-> 0, result |-> 0,
     oracle |-> 0,
     answered |-> [start |-> 0, response |-> <<>>, issues |-> <<>>],
     answers |-> <<>>,
     sorted |-> <<>>,
     returned |-> [file_path |-> <<"", "">>, analysis_time |-> 0, issues |-> <<>>]]

\* analyze_file returns a result it has just created.
ReturnFresh(c, via, result) ==
    /\ heap' = Append(heap, result)
    /\ calls' = Append(calls,
           [c EXCEPT !.pc = "returned", !.via = via, !.result = Len(heap) + 1,
                     !.returned = [file_path |-> result.file_path,
                                   analysis_time |-> result.analysis_time,
                                   issues |-> result.issues]])
    /\ UNCHANGED <<cache, oracle_calls>>

\* analyze_file up to its first suspension: the await of the model client
\* for the first chunk, or the return.  Time: the clock advances by one
\* while a call awaits the model client and stands still otherwise, so
\* time.time() - start_time is the number of awaits the call has made.
AnalyzeFile(file_path, code, language_arg, options, use_cache) ==
    LET elapsed == 0
        language == IF language_arg = "" THEN DetectLanguage(file_path) ELSE language_arg
        c == NewCall(file_path, code, language_arg, language, options, use_cache)
        cache_key == GenerateCacheKey(code, language, options)
        chunks == ChunkCode(code, language)
    IN  /\ Len(calls) < MaxCalls
        /\ IF code = ReadFailure
           THEN ReturnFresh(c, "error",
                    NewResult(file_path,
                        IF language_arg = "" THEN "unknown" ELSE language_arg,
                        <<ErrorIssue("FileNotFoundError")>>, elapsed))
           ELSE IF ~Supported(language)
           THEN ReturnFresh(c, "unsupported", NewResult(file_path, language, <<>>, elapsed))
           ELSE IF TooLarge(code)
           THEN ReturnFresh(c, "oversize",
                    NewResult(file_path, language, <<SizeIssue>>, elapsed))
           ELSE IF CacheHit(use_cache, cache_key)
           THEN LET cached_result == cache[cache_key]
                IN  /\ heap' = [heap EXCEPT ![cached_result].file_path = file_path,
                                            ![cached_result].analysis_time = elapsed]
                    /\ calls' = Append(calls,
                           [c EXCEPT !.pc = "returned", !.via = "hit",
                                     !.result = cached_result,
                                     !.returned =
                                         [file_path |-> file_path,
                                          analysis_time |-> elapsed,
                                          issues |-> heap[cached_result].issues]])
                    /\ UNCHANGED <<cache, oracle_calls>>
           ELSE IF chunks.raised
           THEN ReturnFresh(c, "error",
                    NewResult(file_path, language, <<ErrorIssue(chunks.error)>>, elapsed))
           ELSE /\ heap' = Append(heap, NewResult(file_path, language, <<>>, 0))
                /\ calls' = Append(calls,
                       [c EXCEPT !.pc = "await_oracle", !.via = "normal",
                                 !.result = Len(heap) + 1,
                                 !.chunks = chunks.chunks, !.index = 1, !.oracle = 1])
                /\ oracle_calls' = oracle_calls + 1
                /\ UNCHANGED cache
        /\ UNCHANGED <<config, plan, parsed, agg, settings>>

\* _analyze_chunk once the model client has answered or raised.
AnalyzeChunk(response, start_line) ==
    IF response = OracleFailure THEN <<>> ELSE ParseModelResponse(response, start_line)

\* The post-processing of analyze_file: deduplicate, sort, cap.
PostProcess(issues) ==
    LimitIssues(SortIssuesBySeverity(DeduplicateIssues(issues)),
                config.max_suggestions_per_file)

\* Call k resumes with the model client's answer for its current chunk and
\* runs to its next suspension: the await for the next chunk, or the return.
OracleAnswers(k, response) ==
    LET c == calls[k]
        elapsed == c.oracle
        chunk == c.chunks[c.index]
        cache_key == GenerateCacheKey(c.code, c.language, c.options)
    IN  /\ c.pc = "await_oracle"
        /\ \E chunk_issues \in {AnalyzeChunk(response, chunk.start)} :
           LET answered == [start |-> chunk.start, response |-> response,
                            issues |-> chunk_issues]
               issues == heap[c.result].issues \o chunk_issues
           IN  IF c.index < Len(c.chunks)
               THEN /\ heap' = [heap EXCEPT ![c.result].issues = issues]
                    /\ calls' = [calls EXCEPT ![k].index = @ + 1, ![k].oracle = @ + 1,
                                              ![k].answered = answered,
                                              ![k].answers = Append(@, answered)]
                    /\ oracle_calls' = oracle_calls + 1
                    /\ UNCHANGED cache
               ELSE \E sorted \in {SortIssuesBySeverity(DeduplicateIssues(issues))} :
                    \E limited \in {LimitIssues(sorted, config.max_suggestions_per_file)} :
                    /\ heap' = [heap EXCEPT ![c.result].issues = limited,
                                            ![c.result].analysis_time = elapsed]
                    /\ calls' = [calls EXCEPT
                           ![k].pc = "returned",
                           ![k].answered = answered,
                           ![k].answers = Append(@, answered),
                           ![k].sorted = sorted,
                           ![k].returned = [file_path |-> c.file_path,
                                            analysis_time |-> elapsed,
                                            issues |-> limited]]
                    /\ cache' = CacheStore(c.use_cache, cache_key, c.result)
                    /\ UNCHANGED oracle_calls
        /\ UNCHANGED <<config, plan, parsed, agg, settings>>

----------------------------------------------------------------------------
(* analyze_project.  The path of a project file is <<stem, suffix>> with    *)
(* the stem cut into tokens at every "/" and before every "."; str(path) is *)
(* the stem followed by the suffix.  A pattern is cut the same way, and "*" *)
(* is its wildcard.                                                         *)

PathStr(file_path) ==
    file_path[1] \o (IF file_path[2] = "" THEN <<>> ELSE <<file_path[2]>>)

\* fnmatch.fnmatch(file_path, pattern): the whole of the path has to match,
\* and "*" matches any run of characters, "/" included.
RECURSIVE MatchesPattern(_, _)
MatchesPattern(file_str, pattern) ==
    IF pattern = <<>> THEN file_str = <<>>
    ELSE IF Head(pattern) = "*"
    THEN \E n \in 0..Len(file_str) :
            MatchesPattern(SubSeq(file_str, n + 1, Len(file_str)), Tail(pattern))
    ELSE /\ file_str # <<>>
         /\ Head(file_str) = Head(pattern)
         /\ MatchesPattern(Tail(file_str), Tail(pattern))

MatchesAny(file_str, patterns) ==
    \E i \in 1..Len(patterns) : MatchesPattern(file_str, patterns[i])

\* Mutant: the include patterns are looked at first.
ShouldAnalyzeFile_IncludeFirst(file_path) ==
    IF MatchesAny(PathStr(file_path), config.include_patterns) THEN TRUE
    ELSE FALSE

\* _should_analyze_file
ShouldAnalyzeFile(file_path) ==
    IF MatchesAny(PathStr(file_path), config.ignore_patterns) THEN FALSE
    ELSE IF MatchesAny(PathStr(file_path), config.include_patterns) THEN TRUE
    ELSE FALSE

\* The discovery loop over project_path.rglob('*'); language "" is None.
RECURSIVE FilesToAnalyze(_, _)
FilesToAnalyze(tree, language) ==
    IF tree = <<>> THEN <<>>
    ELSE LET entry == Head(tree)
             rest == FilesToAnalyze(Tail(tree), language)
         IN  IF entry.is_file /\ ShouldAnalyzeFile(entry.path)
             THEN IF language = "" \/ DetectLanguage(entry.path) = language
                  THEN <<entry.path>> \o rest
                  ELSE rest
             ELSE rest

\* What open(file_path).read() yields for a file of the tree.
CodeAt(tree, file_path) ==
    (CHOOSE entry \in {tree[i] : i \in 1..Len(tree)} : entry.path = file_path).code

NoProject ==
    [pc |-> "idle", tree |-> <<>>, language |-> "", options |-> <<>>,
     parallel |-> FALSE, use_cache |-> FALSE, files_to_analyze |-> <<>>,
     results |-> <<>>]

\* analyze_project up to its first await: the discovery, and the choice of
\* the mode.
AnalyzeProject(tree, language, options, parallel, use_cache) ==
    LET files_to_analyze == FilesToAnalyze(tree, language)
    IN  /\ project.pc = "idle"
        /\ project' =
               [pc |-> IF files_to_analyze = <<>> THEN "returned"
                       ELSE IF parallel /\ Len(files_to_analyze) > 1 THEN "gather"
                       ELSE "sequential",
                tree |-> tree, language |-> language, options |-> options,
                parallel |-> parallel, use_cache |-> use_cache,
                files_to_analyze |-> files_to_analyze, results |-> <<>>]
        /\ UNCHANGED <<config, cache, heap, calls, oracle_calls, plan, parsed, agg, settings>>

\* The analyze_file call for the next file begins.  Sequential mode awaits
\* each call before it makes the next.  In parallel mode the tasks of the
\* gather start in the order of the list; a task that awaits a model client
\* which suspends leaves the loop to the next task, one whose model client
\* never suspends is through before the next task starts.
StartsNext ==
    /\ project.pc \in {"gather", "sequential"}
    /\ Len(calls) < Len(project.files_to_analyze)
    /\ project.pc = "sequential" => \A k \in 1..Len(calls) : calls[k].pc = "returned"
    /\ LET file_path == project.files_to_analyze[Len(calls) + 1]
       IN  AnalyzeFile(file_path, CodeAt(project.tree, file_path), project.language,
                       project.options, project.use_cache)
    /\ UNCHANGED project

\* isinstance(r, AnalysisResult)
IsAnalysisResult(r) == ~r.exception

\* Mutant: the results that hold an error finding are left out as well.
ValidResults_NoErrors(results) ==
    SelectSeq(results,
        LAMBDA r : IsAnalysisResult(r) /\
                   \A i \in 1..Len(heap[r.result].issues) :
                       heap[r.result].issues[i].type # "error")

\* valid_results = [r for r in results if isinstance(r, AnalysisResult)]
ValidResults(results) == SelectSeq(results, IsAnalysisResult)

\* Every call has returned: the gather, or the loop, is through and
\* analyze_project returns its list.  analyze_file returns a result whatever
\* went wrong in it, so no task ends in an exception.
ProjectReturns ==
    /\ project.pc \in {"gather", "sequential"}
    /\ Len(calls) = Len(project.files_to_analyze)
    /\ \A k \in 1..Len(calls) : calls[k].pc = "returned"
    /\ LET results == [k \in 1..Len(calls) |->
                          [exception |-> FALSE, result |-> calls[k].result]]
       IN  project' = [project EXCEPT
               !.pc = "returned",
               !.results = IF project.pc = "gather" THEN ValidResults(results)
                           ELSE results]
    /\ UNCHANGED <<config, cache, heap, calls, oracle_calls, plan, parsed, agg, settings>>

----------------------------------------------------------------------------
(* config.py: Settings and get_settings.  The environment is os.environ as  *)
(* far as Settings() reads it; "" stands for a variable that is not set.  A *)
(* Settings object is known by its position in settings.objects.            *)

ValidLevels == {"DEBUG", "INFO", "WARNING", "ERROR", "CRITICAL"}

\* validate_log_level raises ValueError.
SettingsRaises(env) == env.LOG_LEVEL # "" /\ Upper(env.LOG_LEVEL) \notin ValidLevels

\* Settings(): the fields read from the environment, or their defaults.
NewSettings(env) ==
    [log_level |-> IF env.LOG_LEVEL = "" THEN "INFO" ELSE Upper(env.LOG_LEVEL),
     device |-> IF env.MODEL_DEVICE = "" THEN "auto" ELSE env.MODEL_DEVICE,
     huggingface_token |-> env.HF_TOKEN]

\* Mutant: get_settings keeps the first object it made and returns it again.
GetSettingsObject_Cached(objects, env) ==
    IF objects = <<>> THEN [objects |-> <<NewSettings(env)>>, ref |-> 1]
    ELSE [objects |-> objects, ref |-> 1]

\* `return Settings()`: a new object on every call.
GetSettingsObject(objects, env) ==
    [objects |-> Append(objects, NewSettings(env)), ref |-> Len(objects) + 1]

NoSettings ==
    [env |-> [LOG_LEVEL |-> "", MODEL_DEVICE |-> "", HF_TOKEN |-> ""],
     objects |-> <<>>, returned |-> <<>>]

\* get_settings()
GetSettings ==
    /\ Len(settings.returned) < MaxSettingsCalls
    /\ IF SettingsRaises(settings.env)
       THEN settings' = [settings EXCEPT
                !.returned = Append(@, [raised |-> TRUE, ref |-> 0])]
       ELSE LET made == GetSettingsObject(settings.objects, settings.env)
            IN  settings' = [settings EXCEPT
                    !.objects = made.objects,
                    !.returned = Append(@, [raised |-> FALSE, ref |-> made.ref])]
    /\ UNCHANGED <<config, cache, heap, calls, oracle_calls, plan, parsed, agg, project>>

----------------------------------------------------------------------------
(* The inputs of the model.                                                 *)

DefaultLanguages == {"python", "javascript", "typescript", "java"}

Idle == [done |-> FALSE]

\* --- the pipeline ---

Paths == {<<"a", ".py">>, <<"n", ".rs">>}

LanguageArgs == {"", "javascript", "ruby"}

OptionSets ==
    {[suggestions |-> TRUE, performance |-> TRUE, security |-> s] : s \in BOOLEAN}

Small == MkCode(<<"stmt">>)

TwoDefs ==
    MkCode(<<"def", "body", "blank", "blank", "blank", "blank", "blank", "def", "body">>)

Broken == MkCode(<<"bad", "stmt", "stmt", "stmt">>)

Wide == MkCode(<<"uni", "uni", "uni", "uni", "stmt">>)

Long ==
    MkCode(<<"stmt", "blank", "blank", "blank", "blank", "blank",
             "blank", "blank", "blank", "blank", "blank", "stmt">>)

Codes == {Small, TwoDefs, Broken, Wide}

StructuredBlock(severity, line_field, description) ==
    <<Mark("SEVERITY:"), severity, NL>> \o line_field
        \o <<Mark("ISSUE:"), description, NL, Mark("IMPACT:"), Text("crash"), NL,
             Mark("SOLUTION:"), Text("check null")>>

LineField(tok) == <<Mark("LINE:"), tok, NL>>

NoIssuesResponse == <<Clean("No significant issues found.")>>

OneIssueResponse ==
    StructuredBlock(Word("HIGH"), LineField(Num(2)), Text("null deref"))

TwoIssuesResponse ==
    StructuredBlock(Word("BOGUS"), LineField(Num(1)), Text("unused name"))
        \o <<NL>> \o StructuredBlock(Word("CRITICAL"), <<>>, Text("sql injection"))

Responses == {OneIssueResponse, TwoIssuesResponse}

PipelineChunkSize == 3

PipelineOverlap == 2

PipelineFileSize == 40

PipelineConfigs ==
    {[chunk_size |-> PipelineChunkSize, chunk_overlap |-> PipelineOverlap,
      max_file_size |-> PipelineFileSize, max_suggestions_per_file |-> cap,
      supported_languages |-> DefaultLanguages] : cap \in 0..MaxCap}

Init ==
    /\ config \in PipelineConfigs
    /\ cache = <<>>
    /\ heap = <<>>
    /\ calls = <<>>
    /\ oracle_calls = 0
    /\ plan = Idle
    /\ parsed = Idle
    /\ agg = Idle
    /\ project = Idle
    /\ settings = NoSettings

\* The caller awaits each analyze_file call before it makes the next.
CallAnalyzeFile ==
    /\ \A k \in 1..Len(calls) : calls[k].pc = "returned"
    /\ \E file_path \in Paths, code \in Codes \cup {ReadFailure},
          language_arg \in LanguageArgs, options \in OptionSets,
          use_cache \in BOOLEAN :
          AnalyzeFile(file_path, code, language_arg, options, use_cache)
    /\ UNCHANGED project

ModelAnswers ==
    /\ \E k \in 1..Len(calls), response \in Responses \cup {OracleFailure} :
          OracleAnswers(k, response)
    /\ UNCHANGED project

Next == CallAnalyzeFile \/ ModelAnswers

Spec == Init /\ [][Next]_vars

----------------------------------------------------------------------------
(* The pipeline on a file of two chunks, with a model client that fails:    *)
(* it raises, or it returns the failure as its text.                        *)

\* str(e) of the failures: a timeout, and a message that happens to hold
\* the word low.
FailureMessages == {<<Text("timed out")>>, <<Text("disk space"), Word("low")>>}

FailureTexts == {FailureText(message) : message \in FailureMessages}

CallOnChunkedFile ==
    /\ \A k \in 1..Len(calls) : calls[k].pc = "returned"
    /\ \E options \in OptionSets, use_cache \in BOOLEAN :
          AnalyzeFile(<<"a", ".py">>, TwoDefs, "", options, use_cache)
    /\ UNCHANGED project

ModelAnswersOrFails ==
    /\ \E k \in 1..Len(calls),
          response \in Responses \cup {OracleFailure} \cup FailureTexts :
          OracleAnswers(k, response)
    /\ UNCHANGED project

NextOracle == CallOnChunkedFile \/ ModelAnswersOrFails

SpecOracle == Init /\ [][NextOracle]_vars

----------------------------------------------------------------------------
(* The chunk planner alone: _chunk_code applied to one source text.         *)

PlanChunkSizes == {3, MaxChunkSize - 1, MaxChunkSize}

\* The overlaps: the small ones, one as long as the shortest chunk that
\* line-based chunking closes, and one longer than any chunk that a text of
\* MaxLines lines lets it close.
PlanOverlaps == (0..MaxOverlap) \cup {MinChunkLines + 1, MaxLines - 1}

PlanConfigs ==
    {[chunk_size |-> size, chunk_overlap |-> overlap,
      max_file_size |-> PipelineFileSize, max_suggestions_per_file |-> MaxCap,
      supported_languages |-> DefaultLanguages] :
        size \in PlanChunkSizes, overlap \in PlanOverlaps}

\* n lines: declarations at the positions decls, each followed by one line
\* of body, and filler everywhere else.
PlanKinds(n, decls, filler) ==
    [i \in 1..n |-> IF i \in decls THEN "def"
                    ELSE IF (i - 1) \in decls THEN "body"
                    ELSE filler]

\* n lines: a declaration that holds a nested declaration with one line of
\* body, and filler after them.
NestedKinds(n, filler) ==
    [i \in 1..n |-> IF i = 1 THEN "def"
                    ELSE IF i = 2 THEN "method"
                    ELSE IF i = 3 THEN "inner"
                    ELSE filler]

PlanCodes ==
    UNION {{MkCode(PlanKinds(n, decls, filler)) :
               decls \in {D \in SUBSET (1..n) : Cardinality(D) <= 2},
               filler \in {"stmt", "blank"}} : n \in 1..MaxLines}
    \cup {MkCode(PlanKinds(n, {}, "bad")) : n \in 1..MaxLines}
    \cup {MkCode(NestedKinds(n, filler)) :
              n \in 3..MaxLines, filler \in {"stmt", "blank"}}

InitPlan ==
    /\ config \in PlanConfigs
    /\ plan \in {[done |-> FALSE, code |-> code, language |-> language] :
                    code \in PlanCodes, language \in {"python", "javascript"}}
    /\ cache = <<>>
    /\ heap = <<>>
    /\ calls = <<>>
    /\ oracle_calls = 0
    /\ parsed = Idle
    /\ agg = Idle
    /\ project = Idle
    /\ settings = NoSettings

PlanChunks ==
    /\ ~plan.done
    /\ plan' = [done |-> TRUE, code |-> plan.code, language |-> plan.language,
                out |-> ChunkCode(plan.code, plan.language)]
    /\ UNCHANGED <<config, cache, heap, calls, oracle_calls, parsed, agg, project, settings>>

NextPlan == PlanChunks

SpecPlan == InitPlan /\ [][NextPlan]_vars

----------------------------------------------------------------------------
(* The finding parser alone: _parse_model_response applied to one text.     *)

SeverityTokens == {Word("HIGH"), Word("low"), Word("INFO"), Word("BOGUS"), Num(1)}

LineFields == {<<>>, LineField(Num(0)), LineField(Num(3)), LineField(Text("abc"))}

DescriptionTokens == {Text("null deref"), Text("sql injection"), Text("unused name")}

Blocks ==
    {StructuredBlock(severity, line_field, description) :
        severity \in SeverityTokens, line_field \in LineFields,
        description \in DescriptionTokens}

LegacyResponses ==
    {<<Text("crash"), Word(w), NL, Text("unused name"), Ref(2)>> :
        w \in {"HIGH", "low", "INFO", "BOGUS"}}

Preambles ==
    {<<>>, <<Text("unused name"), NL>>, <<Clean("no issues found"), NL>>,
     <<Clean("NO ISSUES FOUND"), NL>>}

\* The block the model is asked to answer with, all five fields given.
WellFormedBlock(severity, line, description, impact, solution) ==
    <<Mark("SEVERITY:"), Word(severity), NL, Mark("LINE:"), Num(line), NL,
      Mark("ISSUE:"), Text(description), NL, Mark("IMPACT:"), Text(impact), NL,
      Mark("SOLUTION:"), Text(solution)>>

FieldLines == {0, 3}

FieldTexts == {"null deref", "crash", "check null", "slow loop"}

WellFormedBlocks ==
    {WellFormedBlock(severity, line, description, impact, solution) :
        severity \in Severities, line \in FieldLines,
        description \in {"null deref", "slow loop"},
        impact \in {"crash", "slow loop"},
        solution \in {"check null", "crash"}}

ParseResponses ==
    {preamble \o block : preamble \in Preambles, block \in Blocks}
    \cup {OneIssueResponse \o <<NL>> \o block : block \in Blocks}
    \cup {block \o <<NL, Clean("No significant issues found.")>> : block \in Blocks}
    \cup WellFormedBlocks
    \cup LegacyResponses
    \cup {NoIssuesResponse, TwoIssuesResponse, <<>>}

InitParse ==
    /\ config \in PipelineConfigs
    /\ parsed \in {[done |-> FALSE, response |-> response, line_offset |-> offset] :
                      response \in ParseResponses, offset \in 0..MaxOffset}
    /\ cache = <<>>
    /\ heap = <<>>
    /\ calls = <<>>
    /\ oracle_calls = 0
    /\ plan = Idle
    /\ agg = Idle
    /\ project = Idle
    /\ settings = NoSettings

ParseResponse ==
    /\ ~parsed.done
    /\ parsed' = [done |-> TRUE, response |-> parsed.response,
                  line_offset |-> parsed.line_offset,
                  out |-> ParseModelResponse(parsed.response, parsed.line_offset)]
    /\ UNCHANGED <<config, cache, heap, calls, oracle_calls, plan, agg, project, settings>>

NextParse == ParseResponse

SpecParse == InitParse /\ [][NextParse]_vars

----------------------------------------------------------------------------
(* The result aggregator alone: deduplicate, sort and cap one finding list. *)

AggFindings ==
    {[severity |-> severity, line |-> line, type |-> "bug",
      description |-> <<<<description, 0>>>>, suggestion |-> <<>>, impact |-> <<>>] :
        severity \in {"CRITICAL", "INFO", "BOGUS"}, line \in 1..2,
        description \in {"null deref", "crash"}}

AggLists == UNION {[1..n -> AggFindings] : n \in 0..MaxIssues}

InitAggregate ==
    /\ config \in PipelineConfigs
    /\ agg \in {[done |-> FALSE, issues |-> issues] : issues \in AggLists}
    /\ cache = <<>>
    /\ heap = <<>>
    /\ calls = <<>>
    /\ oracle_calls = 0
    /\ plan = Idle
    /\ parsed = Idle
    /\ project = Idle
    /\ settings = NoSettings

Aggregate ==
    /\ ~agg.done
    /\ agg' = [done |-> TRUE, issues |-> agg.issues,
               deduped |-> DeduplicateIssues(agg.issues),
               sorted |-> SortIssuesBySeverity(DeduplicateIssues(agg.issues)),
               limited |-> PostProcess(agg.issues)]
    /\ UNCHANGED <<config, cache, heap, calls, oracle_calls, plan, parsed, project, settings>>

NextAggregate == Aggregate

SpecAggregate == InitAggregate /\ [][NextAggregate]_vars

----------------------------------------------------------------------------
(* analyze_project on a project directory, with the default patterns.       *)

IgnorePatterns ==
    <<<<"*", ".pyc">>, <<"*", ".pyo">>, <<"__pycache__", "/", "*">>,
      <<"node_modules", "/", "*">>, <<"*", ".min", ".js">>,
      <<"*", ".bundle", ".js">>, <<"build", "/", "*">>, <<"dist", "/", "*">>,
      <<".git", "/", "*">>, <<".vscode", "/", "*">>, <<".idea", "/", "*">>>>

IncludePatterns ==
    <<<<"*", ".py">>, <<"*", ".js">>, <<"*", ".ts">>, <<"*", ".jsx">>,
      <<"*", ".tsx">>, <<"*", ".java">>, <<"*", ".cpp">>, <<"*", ".c">>,
      <<"*", ".h">>, <<"*", ".hpp">>, <<"*", ".go">>, <<"*", ".rs">>>>

ProjectConfigs ==
    {c @@ [include_patterns |-> IncludePatterns, ignore_patterns |-> IgnorePatterns] :
        c \in PipelineConfigs}

Entry(stem, suffix, is_file, code) ==
    [path |-> <<stem, suffix>>, is_file |-> is_file, code |-> code]

\* Entries of the project directory "." that are in every tree: a minified
\* script, a file of the build directory, a text file, a cache file, and a
\* directory with the name of a Python file.
FixedEntries ==
    <<Entry(<<"app", ".min">>, ".js", TRUE, Small),
      Entry(<<"build", "/", "c">>, ".py", TRUE, Small),
      Entry(<<"notes">>, ".txt", TRUE, Small),
      Entry(<<"__pycache__", "/", "a">>, ".pyc", TRUE, Small),
      Entry(<<"pkg">>, ".py", FALSE, ReadFailure)>>

\* Entries a tree may hold besides: d.py cannot be read, m.py has the text
\* of a.py, src/build/g.py lies in a build directory below the root.
OtherEntries ==
    <<Entry(<<"a">>, ".py", TRUE, TwoDefs),
      Entry(<<"b">>, ".js", TRUE, Small),
      Entry(<<"d">>, ".py", TRUE, ReadFailure),
      Entry(<<"lib", "/", "e">>, ".go", TRUE, Small),
      Entry(<<"m">>, ".py", TRUE, TwoDefs),
      Entry(<<"src", "/", "build", "/", "g">>, ".py", TRUE, Small)>>

RECURSIVE Chosen(_, _)
Chosen(entries, S) ==
    IF entries = <<>> THEN <<>>
    ELSE (IF Len(entries) \in S THEN <<Head(entries)>> ELSE <<>>)
             \o Chosen(Tail(entries), S)

Trees ==
    {Chosen(OtherEntries, S) \o FixedEntries :
        S \in {T \in SUBSET (1..Len(OtherEntries)) : Cardinality(T) <= MaxCalls}}

LanguageFilters == {"", "python"}

InitProject ==
    /\ config \in ProjectConfigs
    /\ cache = <<>>
    /\ heap = <<>>
    /\ calls = <<>>
    /\ oracle_calls = 0
    /\ plan = Idle
    /\ parsed = Idle
    /\ agg = Idle
    /\ project = NoProject
    /\ settings = NoSettings

CallAnalyzeProject ==
    \E tree \in Trees, language \in LanguageFilters, options \in OptionSets,
       parallel \in BOOLEAN, use_cache \in BOOLEAN :
       AnalyzeProject(tree, language, options, parallel, use_cache)

NextProject == CallAnalyzeProject \/ StartsNext \/ ModelAnswers \/ ProjectReturns

SpecProject == InitProject /\ [][NextProject]_vars

----------------------------------------------------------------------------
(* get_settings alone, in an environment that changes between the calls.    *)

EnvValues ==
    [LOG_LEVEL |-> {"", "debug", "verbose"}, MODEL_DEVICE |-> {"", "cpu"},
     HF_TOKEN |-> {"", "token"}]

InitSettings ==
    /\ config \in PipelineConfigs
    /\ cache = <<>>
    /\ heap = <<>>
    /\ calls = <<>>
    /\ oracle_calls = 0
    /\ plan = Idle
    /\ parsed = Idle
    /\ agg = Idle
    /\ project = Idle
    /\ settings = NoSettings

\* os.environ[name] = value, from outside or by a test
SetEnv ==
    /\ \E name \in DOMAIN EnvValues : \E value \in EnvValues[name] :
          /\ settings.env[name] # value
          /\ settings' = [settings EXCEPT !.env[name] = value]
    /\ UNCHANGED <<config, cache, heap, calls, oracle_calls, plan, parsed, agg, project>>

NextSettings == GetSettings \/ SetEnv

SpecSettings == InitSettings /\ [][NextSettings]_vars

----------------------------------------------------------------------------
(* The claims.                                                              *)

Returned_(k) == calls[k].pc = "returned"

\* The line a finding of a response is reported at inside its chunk: the
\* line the parser yields when nothing is added to it.
InChunkLine(response, j) == ParseModelResponse(response, 0)[j].line

\* C1: every finding analyze_file derives from a chunk has a line >= 1 that
\* equals the line reported inside the chunk plus the chunk's starting line
\* minus one.
C1_FindingLineIsAbsolute ==
    \A k \in 1..Len(calls) :
        LET a == calls[k].answered
        IN  \A j \in 1..Len(a.issues) :
                /\ a.issues[j].line >= 1
                /\ a.issues[j].line = InChunkLine(a.response, j) + a.start - 1

SameFinding(f, g) ==
    f.line = g.line /\ f.type = g.type /\ f.description = g.description

NoTwoAlike(issues) ==
    \A i, j \in 1..Len(issues) : i # j => ~SameFinding(issues[i], issues[j])

\* The elements of s at the positions in I, in the order of s.
RECURSIVE Pick(_, _, _)
Pick(s, I, k) ==
    IF k > Len(s) THEN <<>>
    ELSE (IF k \in I THEN <<s[k]>> ELSE <<>>) \o Pick(s, I, k + 1)

FirstOccurrences(issues) ==
    Pick(issues,
         {i \in 1..Len(issues) : \A j \in 1..(i - 1) : ~SameFinding(issues[j], issues[i])},
         1)

\* C2: the list left by _deduplicate_issues holds no two findings with equal
\* (line, type, description) and is exactly the subsequence of first
\* occurrences, so findings that differ in the description alone all
\* survive; the capped result inherits the absence of duplicates.
C2_DedupKeepsFirstOccurrences ==
    agg.done =>
        /\ NoTwoAlike(agg.deduped)
        /\ agg.deduped = FirstOccurrences(agg.issues)
        /\ NoTwoAlike(agg.limited)

C2_Witness ==
    /\ agg.done
    /\ Len(agg.deduped) < Len(agg.issues)
    /\ \E i, j \in 1..Len(agg.deduped) :
          /\ i < j
          /\ agg.deduped[i].line = agg.deduped[j].line
          /\ agg.deduped[i].type = agg.deduped[j].type
          /\ agg.deduped[i].description # agg.deduped[j].description

\* The severity rank of the claim; a severity outside the table ranks last.
Rank(severity) ==
    IF severity = "CRITICAL" THEN 0
    ELSE IF severity = "HIGH" THEN 1
    ELSE IF severity = "MEDIUM" THEN 2
    ELSE IF severity = "LOW" THEN 3
    ELSE 4

Position(s, x) == CHOOSE i \in 1..Len(s) : s[i] = x

\* C3: after aggregation the findings are ordered by severity rank and,
\* within a rank, by ascending line; findings equal in both keep the order
\* deduplication left them in; sorting neither adds nor loses a finding.
C3_SortedBySeverityThenLineStable ==
    agg.done =>
        /\ Len(agg.sorted) = Len(agg.deduped)
        /\ \A x \in 1..Len(agg.deduped) :
              \E y \in 1..Len(agg.sorted) : agg.sorted[y] = agg.deduped[x]
        /\ \A i, j \in 1..Len(agg.sorted) :
              i < j =>
                  LET x == agg.sorted[i]
                      y == agg.sorted[j]
                  IN  /\ Rank(x.severity) <= Rank(y.severity)
                      /\ Rank(x.severity) = Rank(y.severity) => x.line <= y.line
                      /\ (Rank(x.severity) = Rank(y.severity) /\ x.line = y.line)
                            => Position(agg.deduped, x) < Position(agg.deduped, y)

C3_Witness ==
    /\ agg.done
    /\ agg.sorted # agg.deduped
    /\ \E i, j \in 1..Len(agg.sorted) :
          /\ i < j
          /\ agg.sorted[i].severity = agg.sorted[j].severity
          /\ agg.sorted[i].line = agg.sorted[j].line

Cap == config.max_suggestions_per_file

\* x sorts no later than y.
SortsBefore(x, y) ==
    \/ Rank(x.severity) < Rank(y.severity)
    \/ Rank(x.severity) = Rank(y.severity) /\ x.line <= y.line

\* The findings kept are the first entries of the sorted list, all of them
\* or as many as the cap allows, and none that was dropped sorts before one
\* that was kept.
KeepsTheFirst(kept, sorted) ==
    /\ Len(kept) <= Len(sorted)
    /\ kept = SubSeq(sorted, 1, Len(kept))
    /\ Len(kept) < Len(sorted) => Len(kept) = Cap
    /\ \A i \in 1..Len(kept) : \A j \in (Len(kept) + 1)..Len(sorted) :
          SortsBefore(sorted[i], sorted[j])

\* C4 as stated: every result analyze_file returns, on whichever path,
\* holds at most max_suggestions_per_file findings, and a truncated list
\* keeps the first entries of the sorted list.
C4_AtMostCapOnEveryPath ==
    \A k \in 1..Len(calls) :
        Returned_(k) =>
            /\ Len(calls[k].returned.issues) <= Cap
            /\ calls[k].via = "normal" =>
                  KeepsTheFirst(calls[k].returned.issues, calls[k].sorted)

\* C4 amended: with a cap >= 0, a result of the normal or the cached path
\* holds at most max_suggestions_per_file findings, the first ones of the
\* sorted list; a result of the oversize or the error path holds exactly
\* one finding whatever the cap is, and one for an unsupported language none.
C4_AtMostCapOnAnalysedPaths ==
    \A k \in 1..Len(calls) :
        Returned_(k) =>
            LET c == calls[k]
            IN  /\ c.via = "normal" =>
                      /\ Len(c.returned.issues) <= Cap
                      /\ KeepsTheFirst(c.returned.issues, c.sorted)
                /\ c.via = "hit" => Len(c.returned.issues) <= Cap
                /\ c.via \in {"oversize", "error"} => Len(c.returned.issues) = 1
                /\ c.via = "unsupported" => c.returned.issues = <<>>

C4_Witness ==
    \E k \in 1..Len(calls) :
        /\ Returned_(k)
        /\ calls[k].via = "normal"
        /\ Cap >= 1
        /\ Len(calls[k].sorted) > Cap
        /\ Len(calls[k].returned.issues) = Cap

\* C5: every finding _parse_model_response produces has one of the five
\* severities; a block with any other SEVERITY: word yields no finding.
C5_SeverityInVocabulary ==
    parsed.done =>
        \A j \in 1..Len(parsed.out) : parsed.out[j].severity \in Severities

\* The original line i of the text stands in some chunk.
Covered(chunks, line) ==
    \E c \in 1..Len(chunks) : \E k \in 1..Len(chunks[c].content) :
        chunks[c].content[k] = line

\* C6: on every chunking path, every original line of the source appears in
\* at least one of the chunks _chunk_code returns.
C6_NoLineDropped ==
    (plan.done /\ ~plan.out.raised) =>
        \A i \in 1..Len(plan.code) : Covered(plan.out.chunks, plan.code[i])

\* C7: a source text of at most chunk_size lines, the file of exactly
\* chunk_size lines and the empty file included, comes back as exactly one
\* chunk that starts at line 1 and holds the unmodified text.
C7_SmallFileIsOneChunk ==
    (plan.done /\ Len(plan.code) <= config.chunk_size) =>
        /\ ~plan.out.raised
        /\ plan.out.chunks = <<[content |-> plan.code, start |-> 1]>>

C7_Witness ==
    /\ plan.done
    /\ Len(plan.code) = config.chunk_size
    /\ plan.language = "python"
    /\ \E i \in 1..Len(plan.code) : plan.code[i].kind = "def"
    /\ Len(plan.out.chunks) = 1

\* Calls k and k + 1 are given the same source text, language and options,
\* both with caching enabled.
SameRequest(k) ==
    /\ calls[k].code # ReadFailure
    /\ calls[k + 1].code = calls[k].code
    /\ calls[k + 1].language = calls[k].language
    /\ calls[k + 1].options = calls[k].options
    /\ calls[k].use_cache /\ calls[k + 1].use_cache

CacheHitForAnotherPath ==
    /\ Len(calls') = Len(calls) + 1
    /\ calls'[Len(calls')].via = "hit"
    /\ heap[calls'[Len(calls')].result].file_path # calls'[Len(calls')].file_path

\* C9: a result is immutable once returned: a later call that hits the
\* cache for another path returns a result carrying the requesting path and
\* changes neither the file_path nor the analysis_time nor the findings of
\* any result returned earlier.
C9_ReturnedResultIsImmutable ==
    [][CacheHitForAnotherPath =>
          /\ calls'[Len(calls')].returned.file_path = calls'[Len(calls')].file_path
          /\ \A k \in 1..Len(calls) :
                Returned_(k) =>
                    /\ heap'[calls[k].result].file_path = heap[calls[k].result].file_path
                    /\ heap'[calls[k].result].analysis_time
                           = heap[calls[k].result].analysis_time
                    /\ heap'[calls[k].result].issues = heap[calls[k].result].issues]_vars

IsSizeFinding(f) == f.type = "size" /\ f.severity = "HIGH" /\ f.line = 1

\* The step starts an analyze_file call on a text whose UTF-8 encoding is
\* longer than max_file_size.
OversizeCall ==
    /\ Len(calls') = Len(calls) + 1
    /\ calls'[Len(calls')].code # ReadFailure
    /\ EncodedSize(calls'[Len(calls')].code) > config.max_file_size

\* The call just started has returned one size finding, and the step has
\* neither invoked the oracle nor touched the cache.
SizeFindingOnly ==
    LET c == calls'[Len(calls')]
    IN  /\ c.pc = "returned"
        /\ Len(c.returned.issues) = 1
        /\ IsSizeFinding(c.returned.issues[1])
        /\ c.oracle = 0
        /\ oracle_calls' = oracle_calls
        /\ cache' = cache

\* C10 as stated: for an oversize file of whatever language analyze_file
\* returns exactly one size finding (HIGH, line 1), invokes the oracle zero
\* times and stores nothing in the cache.
C10_OversizeAnyLanguage == [][OversizeCall => SizeFindingOnly]_vars

\* C10 amended: the same, for an oversize file whose language is in
\* supported_languages.
C10_OversizeSupportedLanguage ==
    [][(OversizeCall /\ calls'[Len(calls')].language \in config.supported_languages)
          => SizeFindingOnly]_vars

C10_Witness ==
    \E k \in 1..Len(calls) :
        /\ Returned_(k)
        /\ calls[k].via = "oversize"
        /\ CharLen(calls[k].code) <= config.max_file_size
        /\ cache # <<>>


IsErrorFinding(f) == f.type = "error" /\ f.severity = "HIGH" /\ f.line = 1

\* The step starts an analyze_file call in which the read fails, or in
\* which a later step of the pipeline, the chunk planner, raises.
FailingCall ==
    /\ Len(calls') = Len(calls) + 1
    /\ LET c == calls'[Len(calls')]
       IN  \/ c.code = ReadFailure
           \/ /\ c.language \in config.supported_languages
              /\ EncodedSize(c.code) <= config.max_file_size
              /\ ~(c.use_cache /\
                       GenerateCacheKey(c.code, c.language, c.options) \in DOMAIN cache)
              /\ ChunkCode(c.code, c.language).raised

\* The call just started has returned a result whose only finding is the
\* error finding; the oracle was not invoked and the cache is as it was.
ErrorFindingOnly ==
    LET c == calls'[Len(calls')]
    IN  /\ c.pc = "returned"
        /\ Len(c.returned.issues) = 1
        /\ IsErrorFinding(c.returned.issues[1])
        /\ heap'[c.result].issues = c.returned.issues
        /\ c.oracle = 0
        /\ oracle_calls' = oracle_calls
        /\ cache' = cache

\* C11: analyze_file raises nothing to its caller: when the read or a
\* later step of the pipeline fails, the call returns a result whose issues
\* are exactly one error finding (HIGH, line 1), and the cache is unchanged.
C11_FailureBecomesErrorResult == [][FailingCall => ErrorFindingOnly]_vars

C11_Witness ==
    /\ cache # <<>>
    /\ \E k \in 1..Len(calls) :
          /\ Returned_(k)
          /\ calls[k].via = "error"
          /\ calls[k].code # ReadFailure
          /\ calls[k].use_cache
          /\ IsErrorFinding(calls[k].returned.issues[1])

\* The step starts an analyze_file call on a readable file whose language,
\* detected or passed, is not among the supported ones.
UnsupportedCall ==
    /\ Len(calls') = Len(calls) + 1
    /\ calls'[Len(calls')].code # ReadFailure
    /\ calls'[Len(calls')].language \notin config.supported_languages

\* The call just started has returned a new result without findings; no
\* result made before has changed, the cache is as it was, and the oracle
\* was not invoked.
EmptyResultOnly ==
    LET c == calls'[Len(calls')]
    IN  /\ c.pc = "returned"
        /\ c.returned.issues = <<>>
        /\ c.result = Len(heap) + 1
        /\ SubSeq(heap', 1, Len(heap)) = heap
        /\ c.oracle = 0
        /\ oracle_calls' = oracle_calls
        /\ cache' = cache

\* C15: for a file whose language, detected or passed explicitly, is not in
\* supported_languages, analyze_file returns a result without findings and
\* neither reads nor writes the cache nor invokes the oracle.
C15_UnsupportedLanguageIsEmpty == [][UnsupportedCall => EmptyResultOnly]_vars

\* A file was turned away for the language passed with it although the same
\* text, analysed as a supported language, stands in the cache; and a file
\* was turned away for the language detected from its suffix.
C15_Witness ==
    /\ \E k \in 1..Len(calls) :
          /\ Returned_(k)
          /\ calls[k].via = "unsupported"
          /\ calls[k].language_arg = "ruby"
          /\ calls[k].use_cache
          /\ \E key \in DOMAIN cache : key[1] = calls[k].code
    /\ \E language \in {DetectLanguage(<<"n", ".rs">>)} :
          language \notin config.supported_languages

\* The oracle invocation failed: the model client raised, or it returned
\* the failure as its text.
IsFailure(response) == response = OracleFailure \/ response \in FailureTexts

\* C12: a chunk whose oracle invocation fails, by raising or by returning
\* the failure as text, contributes zero findings; the chunks after it are
\* still invoked and parsed, and their findings stand in the file's result.
C12_FailedChunkContributesNothing ==
    \A k \in 1..Len(calls) :
        LET c == calls[k]
        IN  /\ \A j \in 1..Len(c.answers) :
                  IsFailure(c.answers[j].response) => c.answers[j].issues = <<>>
            /\ (Returned_(k) /\ c.via = "normal") =>
                  /\ Len(c.answers) = Len(c.chunks)
                  /\ \A j \in 1..Len(c.answers) :
                        ~IsFailure(c.answers[j].response) =>
                            \A i \in 1..Len(c.answers[j].issues) :
                                \E x \in 1..Len(c.sorted) :
                                    SameFinding(c.sorted[x], c.answers[j].issues[i])

\* The same for a model client that fails by raising only.
C12_RaisingChunkContributesNothing ==
    \A k \in 1..Len(calls) :
        LET c == calls[k]
        IN  /\ \A j \in 1..Len(c.answers) :
                  c.answers[j].response = OracleFailure => c.answers[j].issues = <<>>
            /\ (Returned_(k) /\ c.via = "normal") =>
                  /\ Len(c.answers) = Len(c.chunks)
                  /\ \A j \in 1..Len(c.answers) :
                        ~IsFailure(c.answers[j].response) =>
                            \A i \in 1..Len(c.answers[j].issues) :
                                \E x \in 1..Len(c.sorted) :
                                    SameFinding(c.sorted[x], c.answers[j].issues[i])

\* The text a field of a finding holds when the response gave it as d.
Field(d) == <<<<d, 0>>>>

\* C17: a response that is one well-formed block with the fields SEVERITY s,
\* LINE n, ISSUE d, IMPACT i and SOLUTION t parses to exactly one finding,
\* with severity s, line n + line_offset, description d, impact i and
\* suggestion t.
C17_WellFormedBlockRoundTrip ==
    parsed.done =>
        \A s \in Severities, n \in FieldLines, d, i, t \in FieldTexts :
            parsed.response = WellFormedBlock(s, n, d, i, t) =>
                /\ Len(parsed.out) = 1
                /\ parsed.out[1].severity = s
                /\ parsed.out[1].line = n + parsed.line_offset
                /\ parsed.out[1].description = Field(d)
                /\ parsed.out[1].impact = Field(i)
                /\ parsed.out[1].suggestion = Field(t)

C17_Witness ==
    /\ parsed.done
    /\ parsed.response = WellFormedBlock("HIGH", 3, "null deref", "crash", "check null")
    /\ parsed.line_offset > 0
    /\ Len(parsed.out) = 1
    /\ parsed.out[1].line = 3 + parsed.line_offset

\* C24: in structured extraction a block without the SEVERITY: marker, and
\* a block whose LINE: token is no number, is dropped and yields no finding;
\* only a block without a LINE: field falls back to line 1 of its chunk.
\* Told on three responses: a well-formed block followed by a block with
\* LINE: abc yields the first block's finding only; a text without marker
\* followed by a well-formed block yields that block's finding only; a block
\* without LINE: yields one finding at the fallback line.
C24_MalformedBlockIsDropped ==
    parsed.done =>
        \A d \in DescriptionTokens :
            /\ parsed.response =
                    OneIssueResponse \o <<NL>>
                        \o StructuredBlock(Word("HIGH"), LineField(Text("abc")), d)
                  => Len(parsed.out) = 1
            /\ parsed.response =
                    <<Text("unused name"), NL>>
                        \o StructuredBlock(Word("HIGH"), LineField(Num(3)), d)
                  => /\ Len(parsed.out) = 1
                     /\ parsed.out[1].line = 3 + parsed.line_offset
            /\ parsed.response = StructuredBlock(Word("HIGH"), <<>>, d)
                  => /\ Len(parsed.out) = 1
                     /\ parsed.out[1].line = 1 + parsed.line_offset

\* The phrases that tell a clean chunk, in the cases the responses use.
CleanPhrases == {"No significant issues found.", "no issues found", "NO ISSUES FOUND"}

HoldsCleanPhrase(response) ==
    \E k \in 1..Len(response) : response[k].v \in CleanPhrases

\* The response holds a block that would parse to a finding by itself.
HoldsFindingBlock(response) ==
    \E b \in 1..Len(SplitBlocks(response, <<>>)) :
        ParseIssueBlock(SplitBlocks(response, <<>>)[b], 0).ok

\* C18: a response that holds the phrase "no issues found" or "no
\* significant issues found", in whatever case, parses to no finding at
\* all, whatever else it holds, well-formed SEVERITY blocks included.
C18_CleanPhraseShortCircuits ==
    (parsed.done /\ HoldsCleanPhrase(parsed.response)) => parsed.out = <<>>

C18_Witness ==
    /\ parsed.done
    /\ HoldsCleanPhrase(parsed.response)
    /\ HoldsFindingBlock(parsed.response)
    /\ Len(parsed.response) > 1
    /\ parsed.out = <<>>

\* The analyze_file call for file k of the project ended in the error
\* result: the file could not be read, or a step of the pipeline raised.
FailedFile(k) == calls[k].via = "error"

InResults(k) ==
    \E i \in 1..Len(project.results) : project.results[i].result = calls[k].result

InFlight == Cardinality({k \in 1..Len(calls) : calls[k].pc = "await_oracle"})

\* A limit that limits the projects at hand: they hold up to MaxCalls files
\* that qualify.
ConcurrencyLimit == MaxCalls - 1

\* C14: in the parallel mode of analyze_project the number of file analyses
\* in flight at the same time, and so of the invocations of the model
\* client, never exceeds the concurrency limit, however many files qualify.
C14_InFlightWithinLimit ==
    project.pc = "gather" => InFlight <= ConcurrencyLimit

\* The claim's condition for an entry of the tree to be analysed.
Qualifies(entry, language) ==
    /\ entry.is_file
    /\ \E i \in 1..Len(config.include_patterns) :
          MatchesPattern(PathStr(entry.path), config.include_patterns[i])
    /\ \A i \in 1..Len(config.ignore_patterns) :
          ~MatchesPattern(PathStr(entry.path), config.ignore_patterns[i])
    /\ language # "" => DetectLanguage(entry.path) = language

Listed(file_path) ==
    Cardinality({i \in 1..Len(project.files_to_analyze) :
                    project.files_to_analyze[i] = file_path})

Analyzed(file_path) ==
    Cardinality({k \in 1..Len(calls) : calls[k].file_path = file_path})

\* C16: analyze_project analyzes a regular file under the root if and only
\* if its path matches at least one include pattern and no ignore pattern
\* and, when a language filter is given, its detected language equals the
\* filter: such a file is listed for analysis once and, when the project
\* call has returned, has been analysed once, and no other entry of the
\* tree is listed or analysed.
C16_AnalyzedIffQualifies ==
    project.pc # "idle" =>
        \A i \in 1..Len(project.tree) :
            LET entry == project.tree[i]
                listed == IF Qualifies(entry, project.language) THEN 1 ELSE 0
            IN  /\ Listed(entry.path) = listed
                /\ Analyzed(entry.path) <= listed
                /\ project.pc = "returned" => Analyzed(entry.path) = listed

\* A project call with the language filter python has returned: a.py was
\* analysed, and the tree held b.js (included, another language),
\* app.min.js (included and ignored) and build/c.py (ignored).
C16_Witness ==
    /\ project.pc = "returned"
    /\ project.language = "python"
    /\ \E i \in 1..Len(project.tree) : project.tree[i].path = <<<<"b">>, ".js">>
    /\ \E i \in 1..Len(project.tree) : project.tree[i].path = <<<<"app", ".min">>, ".js">>
    /\ Analyzed(<<<<"a">>, ".py">>) = 1
    /\ Analyzed(<<<<"b">>, ".js">>) = 0

\* The findings of the chunks answered so far, in the order of the answers.
RECURSIVE Gathered(_, _)
Gathered(answers, n) ==
    IF n = 0 THEN <<>> ELSE Gathered(answers, n - 1) \o answers[n].issues

\* kept is what aggregation leaves of the raw findings: no two alike, in
\* sorted order, no more than the cap, each one a raw finding, and every raw
\* finding is among them, or alike to one of them, or sorts after all of
\* them while the cap is reached.
Aggregated(kept, raw) ==
    /\ NoTwoAlike(kept)
    /\ Len(kept) <= Cap
    /\ \A i \in 1..Len(kept) : \E j \in 1..Len(raw) : raw[j] = kept[i]
    /\ \A i, j \in 1..Len(kept) : i < j => SortsBefore(kept[i], kept[j])
    /\ \A j \in 1..Len(raw) :
          \/ \E i \in 1..Len(kept) : SameFinding(kept[i], raw[j])
          \/ /\ Len(kept) = Cap
             /\ \A i \in 1..Len(kept) : SortsBefore(kept[i], raw[j])

\* C25: within one analyze_file call the oracle is invoked for the chunks
\* one at a time in the planner's order: the call has made one invocation
\* more than it has answers while it awaits, the answers are those of the
\* first chunks in order, and their findings are appended to the result
\* before the next invocation; and every cache entry is the result of a
\* call that has returned, deduplicated, sorted and capped.
C25_ChunksInOrderCacheAfterAggregation ==
    /\ \A k \in 1..Len(calls) :
          LET c == calls[k]
          IN  c.via = "normal" =>
                /\ Len(c.answers) =
                       (IF c.pc = "returned" THEN Len(c.chunks) ELSE c.index - 1)
                /\ c.oracle =
                       (IF c.pc = "returned" THEN Len(c.chunks) ELSE Len(c.answers) + 1)
                /\ \A i \in 1..Len(c.answers) : c.answers[i].start = c.chunks[i].start
                /\ c.pc = "await_oracle" =>
                       heap[c.result].issues = Gathered(c.answers, Len(c.answers))
    /\ \A key \in DOMAIN cache :
          \E k \in 1..Len(calls) :
              /\ calls[k].result = cache[key]
              /\ calls[k].pc = "returned"
              /\ calls[k].via = "normal"
              /\ Aggregated(heap[cache[key]].issues,
                            Gathered(calls[k].answers, Len(calls[k].answers)))

\* A call on a file of two chunks has returned and stored its result: the
\* chunks gave three findings between them and the cap kept one.
C25_Witness ==
    \E k \in 1..Len(calls) :
        /\ calls[k].pc = "returned"
        /\ calls[k].via = "normal"
        /\ Len(calls[k].answers) = 2
        /\ calls[k].answers[1].start < calls[k].answers[2].start
        /\ Len(Gathered(calls[k].answers, 2)) = 3
        /\ \E key \in DOMAIN cache :
              /\ cache[key] = calls[k].result
              /\ Len(heap[cache[key]].issues) = 1

\* C26: the list analyze_project returns holds, for each file that
\* qualifies, one result whose file_path is the path of that file, in
\* parallel and in sequential mode, with the cache in use and with two
\* files of the same text: no path is there twice and no file is missing.
C26_OneResultPerQualifyingFile ==
    project.pc = "returned" =>
        /\ Len(project.results) = Len(project.files_to_analyze)
        /\ \A k \in 1..Len(project.files_to_analyze) :
              heap[project.results[k].result].file_path = project.files_to_analyze[k]

\* Calls j and k ask for the same content with the cache in use.
SameContent(j, k) ==
    /\ calls[j].code # ReadFailure
    /\ calls[j].code = calls[k].code
    /\ calls[j].language = calls[k].language
    /\ calls[j].options = calls[k].options
    /\ calls[j].use_cache /\ calls[k].use_cache

\* C27: with the cache in use, under every interleaving of concurrent
\* analyze_file calls on the same source text, language and options, the
\* oracle is invoked for that content by at most one of the calls; every
\* other call is served from the cache.
C27_OneCallInvokesOracle ==
    \A j, k \in 1..Len(calls) :
        (j # k /\ SameContent(j, k)) => ~(calls[j].oracle > 0 /\ calls[k].oracle > 0)

\* The oracle invocation of some chunk of call k raised.
ChunkRaised(k) ==
    \E i \in 1..Len(calls[k].answers) : calls[k].answers[i].response = OracleFailure

\* C28: after an analyze_file call with the cache in use in which the
\* oracle invocation of some chunk raised, the result, which lacks the
\* findings of that chunk, is in the cache: a later call with the same
\* source text, language and options returns it and does not invoke the
\* oracle.
C28_PartialResultIsCached ==
    \A k \in 1..Len(calls) :
        (Returned_(k) /\ calls[k].via = "normal" /\ calls[k].use_cache /\ ChunkRaised(k)) =>
            /\ \A i \in 1..Len(calls[k].answers) :
                  calls[k].answers[i].response = OracleFailure =>
                      calls[k].answers[i].issues = <<>>
            /\ GenerateCacheKey(calls[k].code, calls[k].language, calls[k].options)
                   \in DOMAIN cache
            /\ \A j \in (k + 1)..Len(calls) :
                  (Returned_(j) /\ SameContent(k, j)) =>
                      /\ calls[j].via = "hit"
                      /\ calls[j].oracle = 0
                      /\ calls[j].result = calls[k].result
                      /\ calls[j].returned.issues = calls[k].returned.issues

\* The oracle raised for the first chunk of a call and answered with a
\* finding for the second; the next call, on the same content, got the
\* result with that finding from the cache.
C28_Witness ==
    /\ Len(calls) = 2
    /\ Returned_(1) /\ Returned_(2)
    /\ SameContent(1, 2)
    /\ Len(calls[1].answers) = 2
    /\ calls[1].answers[1].response = OracleFailure
    /\ calls[1].answers[2].issues # <<>>
    /\ calls[2].via = "hit"
    /\ calls[2].oracle = 0
    /\ calls[2].returned.issues # <<>>

\* The step is one of a call made with cache=False: the call starts, or it
\* resumes with an answer of the model client.
StepOfUncachedCall ==
    \/ /\ Len(calls') = Len(calls) + 1
       /\ ~calls'[Len(calls')].use_cache
    \/ \E k \in 1..Len(calls) : calls'[k] # calls[k] /\ ~calls[k].use_cache

\* The cache holds the same entries, and they are as they were.
CacheUntouched ==
    /\ cache' = cache
    /\ \A key \in DOMAIN cache : heap'[cache[key]] = heap[cache[key]]

\* C30: an analyze_file call made with cache=False neither reads nor writes
\* the cache: no step of it changes the cache or a cached result, it is
\* never served from the cache, and when it analyses the text it invokes
\* the oracle for every chunk, also when an entry for the same source
\* text, language and options is cached.
C30_UncachedCallLeavesCacheAlone ==
    /\ [][StepOfUncachedCall => CacheUntouched]_vars
    /\ [](\A k \in 1..Len(calls) :
             ~calls[k].use_cache =>
                 /\ calls[k].via # "hit"
                 /\ (Returned_(k) /\ calls[k].via = "normal") =>
                        calls[k].oracle = Len(calls[k].chunks))

\* A call with cache=False has analysed a text of two chunks, with two
\* oracle invocations, while the cache held an entry for its content.
C30_Witness ==
    /\ Len(calls) = 2
    /\ Returned_(1) /\ Returned_(2)
    /\ calls[1].use_cache /\ calls[1].via = "normal"
    /\ ~calls[2].use_cache
    /\ calls[2].code = calls[1].code
    /\ calls[2].language = calls[1].language
    /\ calls[2].options = calls[1].options
    /\ GenerateCacheKey(calls[2].code, calls[2].language, calls[2].options) \in DOMAIN cache
    /\ calls[2].via = "normal"
    /\ calls[2].oracle = 2

\* C19: get_settings returns a cached instance: of two successive calls
\* that both return, with no cache clear between them, the second returns
\* the very object the first returned.
C19_GetSettingsReturnsSameObject ==
    \A i \in 1..(Len(settings.returned) - 1) :
        (~settings.returned[i].raised /\ ~settings.returned[i + 1].raised) =>
            settings.returned[i + 1].ref = settings.returned[i].ref

\* The chunks line-based chunking emitted: every chunk of a text that is not
\* Python, and of a Python text without a declaration.
LineChunked ==
    /\ plan.done
    /\ ~plan.out.raised
    /\ Len(plan.code) > config.chunk_size
    /\ \/ plan.language # "python"
       \/ \A i \in 1..Len(plan.code) : plan.code[i].kind # "def"

\* C20: every chunk emitted by line-based chunking has a starting line >= 1
\* that is the position in the file of the chunk's first line, also when
\* chunk_overlap is larger than the chunk just closed.
C20_LineChunkStartIsFirstLine ==
    LineChunked =>
        \A c \in 1..Len(plan.out.chunks) :
            /\ plan.out.chunks[c].start >= 1
            /\ plan.out.chunks[c].start = plan.out.chunks[c].content[1].no

\* The chunk the claim gives the declaration of a node: the declaration
\* with ContextLines lines before and after it, within the file.
DeclarationChunk(code, node) ==
    LET first == Max(1, node.lineno - ContextLines)
        last == Min(Len(code), node.end_lineno + ContextLines)
    IN  [content |-> SubSeq(code, first, last), start |-> first]

\* C23: structural chunking of a Python file longer than chunk_size emits
\* exactly one chunk per class or function declaration at the top level,
\* none for a nested one, each spanning the lines from declaration start - 5
\* to declaration end + 5 within the file and tagged with its first line;
\* when parsing fails or the file holds no declaration the chunks are those
\* of line-based chunking.
C23_OneChunkPerTopLevelDeclaration ==
    (plan.done /\ plan.language = "python" /\ Len(plan.code) > config.chunk_size) =>
        /\ ~plan.out.raised
        /\ plan.out.chunks =
              IF SyntaxError(plan.code) \/ DeclNodes(plan.code, 1) = <<>>
              THEN ChunkByLines(plan.code)
              ELSE [k \in 1..Len(DeclNodes(plan.code, 1)) |->
                       DeclarationChunk(plan.code, DeclNodes(plan.code, 1)[k])]

\* C21: in line-based chunking the current chunk is closed as soon as it
\* holds chunk_size lines, whatever its length, so no emitted chunk holds
\* more than chunk_size lines.
C21_NoChunkAboveChunkSize ==
    LineChunked =>
        \A c \in 1..Len(plan.out.chunks) :
            Len(plan.out.chunks[c].content) <= config.chunk_size

\* The original lines two chunks share.
SharedLines(x, y) ==
    {x.content[k].no : k \in 1..Len(x.content)}
        \cap {y.content[k].no : k \in 1..Len(y.content)}

\* C22: line-based chunking of a file longer than chunk_size with
\* 0 < chunk_overlap < chunk_size emits chunks of which each overlaps the
\* next, whose starting lines strictly increase, and whose union covers
\* every line of the file.
C22_OverlappingIncreasingCovering ==
    (LineChunked /\ 0 < config.chunk_overlap
                 /\ config.chunk_overlap < config.chunk_size) =>
        /\ \A c \in 1..(Len(plan.out.chunks) - 1) :
              /\ SharedLines(plan.out.chunks[c], plan.out.chunks[c + 1]) # {}
              /\ plan.out.chunks[c].start < plan.out.chunks[c + 1].start
        /\ \A i \in 1..Len(plan.code) : Covered(plan.out.chunks, plan.code[i])

\* C29: every chunk emitted by line-based chunking after the first holds an
\* original line that no earlier chunk holds; no chunk, the final one
\* included, consists of carried-over lines only.
C29_EveryChunkHoldsANewLine ==
    LineChunked =>
        \A c \in 2..Len(plan.out.chunks) :
            \E k \in 1..Len(plan.out.chunks[c].content) :
                \A b \in 1..(c - 1) :
                    plan.out.chunks[c].content[k].no
                        \notin {plan.out.chunks[b].content[j].no :
                                    j \in 1..Len(plan.out.chunks[b].content)}

====
